---- MODULE Spec2Model ----
(***************************************************************************)
(* A model of vcd/writer.py: the VCDWriter state machine (registration,    *)
(* header emission, value changes, dump suspend/resume, flush, close) and  *)
(* the three Variable encoders.                                            *)
(*                                                                         *)
(* Text.  A Python string is a sequence of pieces whose concatenation is   *)
(* the string.  Computed text (digits, state characters, idents) is one    *)
(* character per piece; a fixed keyword, a var_type, a scope or variable   *)
(* name is a single piece.  The output file is the sequence of the lines   *)
(* print() wrote to it.                                                    *)
(*                                                                         *)
(* Values.  A Python value handed to format_value is a record              *)
(* [t, i, s]: its type, its number (int, bool, float) and its text (str).  *)
(* Timestamps are Python ints; NoTime stands for timestamp=None.           *)
(***************************************************************************)
EXTENDS Integers, Sequences, FiniteSets, TLC

\* ---------------------------------------------------------------- bounds
\* Timestamps handed to the writer are 0..MaxTime; at most MaxWrites calls
\* may append to the output file; at most MaxVars variables are registered.
\* The longer runs take timestamps 0..MaxLongTime and MaxLongWrites calls
\* that append: a streamed change, a suspension and a later resumption.
MaxTime == 1
MaxWrites == 2
MaxLongTime == 2
MaxLongWrites == 3
MaxVars == 2
\* The scope runs register at most MaxScopeVars variables.
MaxScopeVars == 4
\* The encoders are called on vectors of 1..MaxBits bits.
MaxBits == 3

\* ------------------------------------------------------------------ text
None == <<>>

Digit == <<"0", "1", "2", "3", "4", "5", "6", "7", "8", "9">>

RECURSIVE DecStr(_)
DecStr(n) == IF n < 10 THEN <<Digit[n + 1]>>
             ELSE DecStr(n \div 10) \o <<Digit[(n % 10) + 1]>>

IntStr(n) == IF n < 0 THEN <<"-">> \o DecStr(0 - n) ELSE DecStr(n)

RECURSIVE BinStr(_)
BinStr(n) == IF n < 2 THEN <<Digit[n + 1]>>
             ELSE BinStr(n \div 2) \o <<Digit[(n % 2) + 1]>>

RECURSIVE Pow2(_)
Pow2(n) == IF n = 0 THEN 1 ELSE 2 * Pow2(n - 1)

\* ---------------------------------------------------------------- values
IntV(n) == [t |-> "int", i |-> n, s |-> <<>>]
BoolV(b) == [t |-> "bool", i |-> IF b THEN 1 ELSE 0, s |-> <<>>]
FloatV(n) == [t |-> "float", i |-> n, s |-> <<>>]
StrV(s) == [t |-> "str", i |-> 0, s |-> s]
NoneV == [t |-> "none", i |-> 0, s |-> <<>>]

IsString(v) == v.t = "str"
IsInteger(v) == v.t \in {"int", "bool"}
IsNumber(v) == v.t \in {"int", "bool", "float"}
Truthy(v) == CASE v.t = "none" -> FALSE
               [] v.t = "str" -> Len(v.s) > 0
               [] OTHER -> v.i # 0

\* An encoder's answer: [ok |-> TRUE, str |-> text] or a raised ValueError.
Formatted(s) == [ok |-> TRUE, str |-> s]
RaiseValueError == [ok |-> FALSE, str |-> <<>>]

\* -------------------------------------------------------------- encoders
ScalarChars == {"0", "1", "x", "z", "X", "Z"}

\* A scalar encoder without the branch for None.
ScalarFormat_NoneIsFalse(var, value) ==
    IF IsString(value)
    THEN IF Len(value.s) # 1 \/ value.s[1] \notin ScalarChars
         THEN RaiseValueError
         ELSE Formatted(value.s \o var.ident)
    ELSE IF Truthy(value) THEN Formatted(<<"1">> \o var.ident)
    ELSE Formatted(<<"0">> \o var.ident)

ScalarFormat(var, value) ==
    IF IsString(value)
    THEN IF Len(value.s) # 1 \/ value.s[1] \notin ScalarChars
         THEN RaiseValueError
         ELSE Formatted(value.s \o var.ident)
    ELSE IF value.t = "none" THEN Formatted(<<"z">> \o var.ident)
    ELSE IF Truthy(value) THEN Formatted(<<"1">> \o var.ident)
    ELSE Formatted(<<"0">> \o var.ident)

\* '{:.16g}' of the numbers used here: integers and integer-valued floats
\* of fewer than 16 digits print as their decimal digits.
G16(value) == IntStr(value.i)

RealFormat(var, value) ==
    IF IsNumber(value)
    THEN Formatted(<<"r">> \o G16(value) \o <<" ">> \o var.ident)
    ELSE RaiseValueError

\* A vector encoder that prints the magnitude of a negative value.
Unsigned_Magnitude(value, max_val) == IF value < 0 THEN 0 - value ELSE value

\* VectorVariable.format_value lines 499-500.
Unsigned(value, max_val) == IF value < 0 THEN value + max_val ELSE value

VectorFormat(var, value) ==
    IF IsInteger(value)
    THEN LET max_val == Pow2(var.size)
         IN  IF (0 - value.i) > (max_val \div 2) \/ value.i >= max_val
             THEN RaiseValueError
             ELSE Formatted(<<"b">> \o BinStr(Unsigned(value.i, max_val))
                            \o <<" ">> \o var.ident)
    ELSE IF value.t = "none" THEN Formatted(<<"b", "z", " ">> \o var.ident)
    ELSE IF IsString(value) /\ Len(value.s) <= var.size
    THEN Formatted(<<"b">> \o value.s \o <<" ">> \o var.ident)
    ELSE RaiseValueError

\* Variable.format_value, dispatched on the handle's class.
format_value(var, value) ==
    CASE var.cls = "ScalarVariable" -> ScalarFormat(var, value)
      [] var.cls = "RealVariable" -> RealFormat(var, value)
      [] OTHER -> VectorFormat(var, value)

\* Variables constructed directly from their classes.
ScalarVariable(ident, type, size) ==
    [ident |-> ident, type |-> type, size |-> size, cls |-> "ScalarVariable"]
VectorVariable(ident, type, size) ==
    [ident |-> ident, type |-> type, size |-> size, cls |-> "VectorVariable"]

\* The Variable register_var builds (lines 151-156).
MakeVariable(ident, var_type, size) ==
    [ident |-> ident, type |-> var_type, size |-> size,
     cls |-> IF size = 1 THEN "ScalarVariable"
             ELSE IF var_type = "real" THEN "RealVariable"
             ELSE "VectorVariable"]

\* ----------------------------------------------------------------- state
VARIABLES
    ofile,            \* self._ofile: the lines written so far
    header_keywords,  \* self._header_keywords
    registering,      \* self._registering
    closed,           \* self._closed
    dumping,          \* self._dumping
    next_var_id,      \* self._next_var_id
    scope_var_strs,   \* self._scope_var_strs: scope tuple -> list of $var lines
    scope_var_names,  \* self._scope_var_names: scope tuple -> list of names
    scope_types,      \* self._scope_types: scope tuple -> scope type or None
    ident_values,     \* self._ident_values: OrderedDict ident -> val_str
    prev_timestamp,   \* self._prev_timestamp
    handles,          \* the Variable objects register_var returned to the caller
    last,             \* the latest call: its name, arguments and how it ended
    accepted,         \* per handle, the val_str of the latest accepted change
    accepted_ts,      \* the largest timestamp of an accepted change() call
    nwrites,          \* how many calls appended to the output file
    client,           \* what the calling program passes: the sets its
                      \* arguments come from and how many calls may write
    fmt               \* a direct call of Variable.format_value: the
                      \* variable, the value, and the result once returned

writer == <<ofile, header_keywords, registering, closed, dumping, next_var_id,
            scope_var_strs, scope_var_names, scope_types, ident_values,
            prev_timestamp>>
vars == <<ofile, header_keywords, registering, closed, dumping, next_var_id,
          scope_var_strs, scope_var_names, scope_types, ident_values,
          prev_timestamp, handles, last, accepted, accepted_ts, nwrites,
          client, fmt>>

\* ------------------------------------------------------------ dictionaries
EmptyDict == [k \in {} |-> 0]
Put(d, k, v) == [x \in (DOMAIN d) \cup {k} |-> IF x = k THEN v ELSE d[x]]
SetDefault(d, k, v) == IF k \in DOMAIN d THEN d ELSE Put(d, k, v)
Get(d, k, default) == IF k \in DOMAIN d THEN d[k] ELSE default
Contains(list, x) == \E i \in 1..Len(list) : list[i] = x

\* OrderedDict.__setitem__: an existing key keeps its place, a new key goes last.
OdSet(od, k, v) ==
    IF \E i \in 1..Len(od) : od[i].ident = k
    THEN [i \in 1..Len(od) |-> IF od[i].ident = k
                               THEN [ident |-> k, val |-> v] ELSE od[i]]
    ELSE Append(od, [ident |-> k, val |-> v])

\* ------------------------------------------------------- class constants
SCOPE_TYPES == {<<"begin">>, <<"fork">>, <<"function">>, <<"module">>, <<"task">>}
VAR_TYPES == {"event", "integer", "parameter", "real", "realtime", "reg",
              "supply0", "supply1", "time", "tri", "triand", "trior",
              "trireg", "tri0", "tri1", "wand", "wire", "wor"}
NoTime == -1

\* The constructor's arguments: the defaults, and a fixed one-line date.
default_scope_type == <<"module">>
InitHeaderKeywords ==
    [k \in {"$timescale", "$date", "$comment", "$version"} |->
        CASE k = "$timescale" -> <<"1 us">>
          [] k = "$date" -> <<"today">>
          [] OTHER -> <<"">>]

\* str() of a scope type or of None.
StrOf(x) == IF x = None THEN <<"None">> ELSE x

\* ---------------------------------------------------------------- header
\* Python's order on the scope names used here, and on tuples of them.
NameRank(n) == CASE n = "a" -> 1 [] n = "b" -> 2 [] n = "c" -> 3 [] OTHER -> 4

RECURSIVE TupleLess(_, _)
TupleLess(s1, s2) ==
    IF s1 = <<>> THEN s2 # <<>>
    ELSE IF s2 = <<>> THEN FALSE
    ELSE IF Head(s1) # Head(s2) THEN NameRank(Head(s1)) < NameRank(Head(s2))
    ELSE TupleLess(Tail(s1), Tail(s2))

\* sorted(keys)
RECURSIVE Sorted(_)
Sorted(S) ==
    IF S = {} THEN <<>>
    ELSE LET m == CHOOSE x \in S : \A y \in S \ {x} : TupleLess(x, y)
         IN  <<m>> \o Sorted(S \ {m})

\* The keyword lines of _gen_header (lines 340-350), keys in sorted order.
KeywordOrder == <<"$comment", "$date", "$timescale", "$version">>

RECURSIVE KeywordLines(_, _)
KeywordLines(kws, i) ==
    IF i > Len(KeywordOrder) THEN <<>>
    ELSE LET k == KeywordOrder[i]
             rest == KeywordLines(kws, i + 1)
         IN  IF k \notin DOMAIN kws \/ kws[k] = <<"">> THEN rest
             ELSE IF Len(kws[k]) = 1
             THEN << <<k, " ", kws[k][1], " ", "$end">> >> \o rest
             ELSE << <<k>> >>
                  \o [j \in 1..Len(kws[k]) |-> <<"\t", kws[k][j]>>]
                  \o << <<"$end">> >> \o rest

\* The first index (from 0) at which zip_longest(prev, this) differs.
RECURSIVE FirstDiff(_, _, _)
FirstDiff(prev, this, i) ==
    IF i >= Len(prev) \/ i >= Len(this) THEN i
    ELSE IF prev[i + 1] # this[i + 1] THEN i
    ELSE FirstDiff(prev, this, i + 1)

\* A walk that takes every scope as new from the root.
ScopeDiff_FromRoot(prev_scope, scope) == 0

\* Lines 356-357: the index at which the scope leaves the previous one.
ScopeDiff(prev_scope, scope) == FirstDiff(prev_scope, scope, 0)

UpscopeLine == <<"$upscope", " ", "$end">>
ScopeLine(scope_type, name) ==
    <<"$scope", " ">> \o StrOf(scope_type) \o <<" ", name, " ", "$end">>

\* The scope walk of _gen_header (lines 352-375) over the sorted scopes
\* from position k on, prev_scope being the scope visited before.
RECURSIVE ScopeWalk(_, _, _, _, _)
ScopeWalk(order, k, prev_scope, strs, types) ==
    IF k > Len(order)
    THEN [j \in 1..Len(prev_scope) |-> UpscopeLine]
    ELSE LET scope == order[k]
             i == ScopeDiff(prev_scope, scope)
             ups == [j \in 1..(Len(prev_scope) - i) |-> UpscopeLine]
             opens == [j \in 1..(Len(scope) - i) |->
                          ScopeLine(Get(types, SubSeq(scope, 1, i + j),
                                        default_scope_type),
                                    scope[i + j])]
         IN  ups \o opens \o strs[scope]
             \o ScopeWalk(order, k + 1, scope, strs, types)

EndDefinitions == <<"$enddefinitions", " ", "$end">>

gen_header ==
    KeywordLines(header_keywords, 1)
    \o ScopeWalk(Sorted(DOMAIN scope_var_strs), 1, <<>>, scope_var_strs,
                 scope_types)
    \o <<EndDefinitions>>

\* ------------------------------------------------------------------ dumps
TimestampLine(t) == <<"#">> \o IntStr(t)

\* _dump_values: the keyword, the cached strings (print() of no arguments
\* writes one empty line), $end.
dump_values(keyword) ==
    << <<keyword>> >>
    \o (IF ident_values = <<>> THEN << <<>> >>
        ELSE [i \in 1..Len(ident_values) |-> ident_values[i].val])
    \o << <<"$end">> >>

RECURSIVE UnknownLines(_, _)
UnknownLines(od, i) ==
    IF i > Len(od) THEN <<>>
    ELSE (IF od[i].val[1] = "b" THEN << <<"b", "x", " ">> \o od[i].ident >>
          ELSE IF od[i].val[1] = "r" THEN <<>>
          ELSE << <<"x">> \o od[i].ident >>)
         \o UnknownLines(od, i + 1)

\* _dump_off
DumpOffLines(t) ==
    <<TimestampLine(t), <<"$dumpoff">>>>
    \o UnknownLines(ident_values, 1) \o << <<"$end">> >>

\* What _finalize_registration prints (lines 381-385).
FinalizeLines ==
    gen_header
    \o (IF ident_values # <<>>
        THEN dump_values("$dumpvars")
             \o (IF ~dumping THEN DumpOffLines(0) ELSE <<>>)
        ELSE <<>>)

\* ------------------------------------------------------------- operations
\* How a call ended and what it left in the fields change() can touch.
Outcome(res, why, out, reg, prev, cache) ==
    [res |-> res, why |-> why, ofile |-> out, registering |-> reg,
     prev_timestamp |-> prev, ident_values |-> cache]

\* A call that raised before touching anything.
Raised(res, why) ==
    Outcome(res, why, ofile, registering, prev_timestamp, ident_values)

\* A finalisation that forgets to leave the registering phase.
FinalizeRegistering_Stays == TRUE

\* _finalize_registration line 386: self._registering afterwards.
FinalizeRegistering == FALSE

\* change() lines 253-256: the two VCDPhaseError checks.
ChangePhaseError(t) == t < prev_timestamp \/ closed

\* change() line 260
ChangeFinalizes(t) == t # 0 /\ registering

\* A change() that formats the value only after lines 260-261 ran.
ChangeInvalid_AfterFinalize(var, t, value) ==
    Outcome("ValueError", "value",
            IF ChangeFinalizes(t) THEN ofile \o FinalizeLines ELSE ofile,
            IF ChangeFinalizes(t) THEN FALSE ELSE registering,
            prev_timestamp, ident_values)

\* change() line 258: format_value raises before any statement that writes.
ChangeInvalid(var, t, value) == Raised("ValueError", "value")

\* change() line 263
ChangeStreams(t) == t # 0 /\ dumping

\* change(var, timestamp, value), lines 253-270.
ChangeOutcome(var, t, value) ==
    LET fv == format_value(var, value)
        out1 == IF ChangeFinalizes(t) THEN ofile \o FinalizeLines ELSE ofile
        reg1 == IF ChangeFinalizes(t) THEN FinalizeRegistering
                ELSE registering
    IN  IF ChangePhaseError(t) THEN Raised("VCDPhaseError", "")
        ELSE IF ~fv.ok THEN ChangeInvalid(var, t, value)
        ELSE IF ChangeStreams(t)
        THEN Outcome("ok", "", out1
                        \o (IF t > prev_timestamp THEN <<TimestampLine(t)>>
                            ELSE <<>>)
                        \o <<fv.str>>,
                     reg1,
                     IF t > prev_timestamp THEN t ELSE prev_timestamp,
                     ident_values)
        ELSE Outcome("ok", "", out1, reg1, prev_timestamp,
                     OdSet(ident_values, var.ident, fv.str))

\* The registry fields are emptied when the writer stops registering:
\* lines 389-391 and the pop() of line 354.
Cleared(reg1) == registering /\ ~reg1

\* The call just made, as the caller saw it.
Call(op, res, why) ==
    [op |-> op, res |-> res, why |-> why, wrote |-> ofile' # ofile]

\* Bookkeeping common to every call: count the calls that wrote.
Wrote == ofile' # ofile
CountWrite ==
    /\ (Wrote => nwrites < client.writes)
    /\ nwrites' = IF Wrote THEN nwrites + 1 ELSE nwrites
    /\ UNCHANGED <<client, fmt>>

\* Assign the fields of an outcome of change() or flush().
Apply(o) ==
    /\ ofile' = o.ofile
    /\ registering' = o.registering
    /\ prev_timestamp' = o.prev_timestamp
    /\ ident_values' = o.ident_values
    /\ header_keywords' = IF Cleared(o.registering) THEN EmptyDict
                          ELSE header_keywords
    /\ scope_types' = IF Cleared(o.registering) THEN EmptyDict ELSE scope_types

Max(a, b) == IF a > b THEN a ELSE b

\* VCDWriter.change called by the client on the handle handles[i].
change(i, t, value) ==
    LET o == ChangeOutcome(handles[i], t, value)
    IN  /\ Apply(o)
        /\ scope_var_names' = IF Cleared(o.registering) THEN EmptyDict
                              ELSE scope_var_names
        /\ scope_var_strs' = IF Cleared(o.registering) THEN EmptyDict
                             ELSE scope_var_strs
        /\ UNCHANGED <<closed, dumping, next_var_id, handles>>
        /\ last' = Call("change", o.res, o.why)
        /\ accepted' = IF o.res = "ok"
                       THEN [accepted EXCEPT
                                ![i] = format_value(handles[i], value).str]
                       ELSE accepted
        /\ accepted_ts' = IF o.res = "ok" THEN Max(accepted_ts, t)
                          ELSE accepted_ts
        /\ CountWrite

\* A register_var that checks only for close().
RegisterPhaseError_ClosedOnly == closed

\* register_var lines 126-129
RegisterPhaseError == closed \/ ~registering

\* A register_var that looks the name up in every scope.
DuplicateName_AnyScope(names, scope, name) ==
    \E sc \in DOMAIN names : Contains(names[sc], name)

\* register_var lines 135-136: the name is already in this scope's list.
DuplicateName(names, scope, name) == Contains(names[scope], name)

\* register_var line 142
VarStr(var_type, size, ident, name) ==
    <<"$var", " ", var_type, " ">> \o DecStr(size) \o <<" ">> \o ident
    \o <<" ", name, " ", "$end">>

\* register_var lines 145-149
DefaultInit(var_type, init) ==
    IF init = NoneV
    THEN IF var_type = "real" THEN FloatV(0) ELSE StrV(<<"x">>)
    ELSE init

\* VCDWriter.register_var, lines 126-165.
register_var(scope, name, var_type, size, init, ident) ==
    LET names1 == SetDefault(scope_var_names, scope, <<>>)
        id == IF ident = None THEN <<"v">> \o DecStr(next_var_id) ELSE ident
        var == MakeVariable(id, var_type, size)
        o == ChangeOutcome(var, 0, DefaultInit(var_type, init))
        fails(res, why) ==
            /\ UNCHANGED <<ofile, header_keywords, registering, closed,
                           dumping, next_var_id, scope_var_strs, scope_types,
                           ident_values, prev_timestamp, handles, accepted,
                           accepted_ts>>
            /\ last' = Call("register_var", res, why)
    IN  /\ IF RegisterPhaseError
           THEN fails("VCDPhaseError", "") /\ UNCHANGED scope_var_names
           ELSE IF var_type \notin VAR_TYPES
           THEN fails("ValueError", "var_type") /\ UNCHANGED scope_var_names
           ELSE IF DuplicateName(names1, scope, name)
           THEN fails("KeyError", "") /\ scope_var_names' = names1
           ELSE IF o.res # "ok"
           THEN fails(o.res, o.why) /\ scope_var_names' = names1
           ELSE /\ Apply(o)
                /\ next_var_id' = next_var_id + 1
                /\ scope_var_strs' =
                       Put(scope_var_strs, scope,
                           Append(Get(scope_var_strs, scope, <<>>),
                                  VarStr(var_type, size, id, name)))
                /\ scope_var_names' =
                       Put(names1, scope, Append(names1[scope], name))
                /\ handles' = Append(handles, var)
                /\ accepted' = Append(accepted,
                       format_value(var, DefaultInit(var_type, init)).str)
                /\ last' = Call("register_var", "ok", "")
                /\ UNCHANGED <<closed, dumping, accepted_ts>>
        /\ CountWrite

\* The convenience wrappers, lines 175, 185 and 195.
register_int(scope, name, size, init, ident) ==
    register_var(scope, name, "integer", size, init, ident)

register_real(scope, name, size, init, ident) ==
    register_var(scope, name, "real", size, init, None)

register_event(scope, name, size, init, ident) ==
    register_var(scope, name, "event", size, init, ident)

\* VCDWriter.set_scope_type, lines 92-95.
set_scope_type(scope, scope_type) ==
    /\ UNCHANGED <<ofile, header_keywords, registering, closed, dumping,
                   next_var_id, scope_var_strs, scope_var_names,
                   ident_values, prev_timestamp, handles, accepted,
                   accepted_ts>>
    /\ IF scope_type # None /\ scope_type \notin SCOPE_TYPES
       THEN /\ UNCHANGED scope_types
            /\ last' = Call("set_scope_type", "ValueError", "scope_type")
       ELSE /\ scope_types' = Put(scope_types, scope, scope_type)
            /\ last' = Call("set_scope_type", "ok", "")
    /\ CountWrite

\* A dump_off that does not look at the phase.
DumpOffWrites_AnyPhase == dumping /\ ident_values # <<>>

\* dump_off line 199, dump_on line 217: the call writes its block.
DumpOffWrites == dumping /\ ~registering /\ ident_values # <<>>
DumpOnWrites == ~dumping /\ ~registering /\ ident_values # <<>>

\* VCDWriter.dump_off, lines 199-201.
dump_off(t) ==
    /\ ofile' = IF DumpOffWrites THEN ofile \o DumpOffLines(t) ELSE ofile
    /\ dumping' = FALSE
    /\ last' = Call("dump_off", "ok", "")
    /\ UNCHANGED <<header_keywords, registering, closed, next_var_id,
                   scope_var_strs, scope_var_names, scope_types,
                   ident_values, prev_timestamp, handles, accepted,
                   accepted_ts>>
    /\ CountWrite

\* VCDWriter.dump_on, lines 217-220.
dump_on(t) ==
    /\ ofile' = IF DumpOnWrites
                THEN ofile \o <<TimestampLine(t)>> \o dump_values("$dumpon")
                ELSE ofile
    /\ dumping' = TRUE
    /\ last' = Call("dump_on", "ok", "")
    /\ UNCHANGED <<header_keywords, registering, closed, next_var_id,
                   scope_var_strs, scope_var_names, scope_types,
                   ident_values, prev_timestamp, handles, accepted,
                   accepted_ts>>
    /\ CountWrite

\* flush() line 333
FlushFinalizes == registering

\* flush() line 335
FlushMarks(t) == t # NoTime /\ t > prev_timestamp

\* VCDWriter.flush, lines 331-337.
FlushOutcome(t) ==
    IF closed THEN Raised("VCDPhaseError", "")
    ELSE Outcome("ok", "",
                 (IF FlushFinalizes THEN ofile \o FinalizeLines ELSE ofile)
                 \o (IF FlushMarks(t) THEN <<TimestampLine(t)>> ELSE <<>>),
                 IF FlushFinalizes THEN FinalizeRegistering ELSE registering,
                 prev_timestamp, ident_values)

ApplyFlush(o) ==
    /\ Apply(o)
    /\ scope_var_names' = IF Cleared(o.registering) THEN EmptyDict
                          ELSE scope_var_names
    /\ scope_var_strs' = IF Cleared(o.registering) THEN EmptyDict
                         ELSE scope_var_strs

flush(t) ==
    LET o == FlushOutcome(t)
    IN  /\ ApplyFlush(o)
        /\ last' = Call("flush", o.res, o.why)
        /\ UNCHANGED <<closed, dumping, next_var_id, handles, accepted,
                       accepted_ts>>
        /\ CountWrite

\* A close() that calls flush() every time.
CloseSkips_Never == FALSE

\* close() line 317: a closed writer skips the body.
CloseSkips == closed

\* VCDWriter.close, lines 317-319: flush(timestamp), then closed; an
\* exception of flush() leaves the call before line 319.
close(t) ==
    LET o == IF CloseSkips THEN Raised("ok", "skipped") ELSE FlushOutcome(t)
    IN  /\ ApplyFlush(o)
        /\ closed' = IF ~CloseSkips /\ o.res = "ok" THEN TRUE ELSE closed
        /\ last' = Call("close", o.res, o.why)
        /\ UNCHANGED <<dumping, next_var_id, handles, accepted, accepted_ts>>
        /\ CountWrite

\* ---------------------------------------------------------- specification
NoCall == [state |-> "none", var |-> None, value |-> NoneV,
           out |-> RaiseValueError]

Construct(c) ==
    /\ ofile = <<>>
    /\ header_keywords = InitHeaderKeywords
    /\ registering = TRUE
    /\ closed = FALSE
    /\ dumping = TRUE
    /\ next_var_id = 0
    /\ scope_var_strs = EmptyDict
    /\ scope_var_names = EmptyDict
    /\ scope_types = EmptyDict
    /\ ident_values = <<>>
    /\ prev_timestamp = 0
    /\ handles = <<>>
    /\ last = [op |-> "init", res |-> "ok", why |-> "", wrote |-> FALSE]
    /\ accepted = <<>>
    /\ accepted_ts = 0
    /\ nwrites = 0
    /\ client = c

\* A new writer, no encoder called directly.
Start(c) == Construct(c) /\ fmt = NoCall

\* The arguments of the calls.
Invalid == StrV(<<"q", "q", "q">>)
Scalar == [var_type |-> "wire", size |-> 1]
Vector == [var_type |-> "wire", size |-> 2]
Real == [var_type |-> "real", size |-> 2]
BadKind == [var_type |-> "bogus", size |-> 1]
AutoIdent == None
OptTimes == client.times \cup {NoTime}

Register ==
    \E scope \in client.scopes, name \in client.names,
       kind \in client.kinds, init \in client.inits,
       ident \in client.idents :
        /\ register_var(scope, name, kind.var_type, kind.size, init, ident)
        /\ Len(handles') <= client.maxvars
SetScopeType ==
    \E scope \in client.scopes, scope_type \in client.scope_types :
        set_scope_type(scope, scope_type)
Change ==
    \E i \in 1..Len(handles), t \in client.times, value \in client.values :
        change(i, t, value)
DumpOff == \E t \in client.times : dump_off(t)
DumpOn == \E t \in client.times : dump_on(t)
Flush == \E t \in OptTimes : flush(t)
Close == \E t \in OptTimes : close(t)

Next ==
    \/ Register
    \/ SetScopeType
    \/ Change
    \/ DumpOff
    \/ DumpOn
    \/ Flush
    \/ Close

\* Two scalars in one scope, streamed over the timestamps 0..MaxTime.
StreamClient ==
    [scopes |-> {<<"a">>}, names |-> {"n", "m"}, kinds |-> {Scalar},
     inits |-> {NoneV}, idents |-> {AutoIdent},
     scope_types |-> {<<"bogus">>}, values |-> {IntV(1), Invalid},
     times |-> 0..MaxTime, writes |-> MaxWrites, maxvars |-> MaxVars]

Init == Start(StreamClient)
Spec == Init /\ [][Next]_vars

\* The same client, with one more timestamp and one more writing call.
InitLong ==
    Start([StreamClient EXCEPT !.times = 0..MaxLongTime,
                               !.writes = MaxLongWrites])
SpecLong == InitLong /\ [][Next]_vars

\* One scalar, and scope types that are valid, absent and invalid.
PhaseClient ==
    [scopes |-> {<<"a">>}, names |-> {"n"}, kinds |-> {Scalar},
     inits |-> {NoneV}, idents |-> {AutoIdent},
     scope_types |-> {<<"task">>, None, <<"bogus">>},
     values |-> {IntV(1), Invalid},
     times |-> 0..MaxTime, writes |-> MaxWrites, maxvars |-> MaxVars]

InitPhase == Start(PhaseClient)
SpecPhase == InitPhase /\ [][Next]_vars

\* Registration of scalars under nested and sibling scopes, with valid and
\* invalid var_type and init, automatic and given idents; every call is
\* made at timestamp 0.
RegClient ==
    [scopes |-> {<<"a">>, <<"a", "b">>, <<"b">>}, names |-> {"n", "m"},
     kinds |-> {Scalar, BadKind},
     inits |-> {NoneV, Invalid},
     idents |-> {AutoIdent, <<"v", "1">>},
     scope_types |-> {<<"bogus">>}, values |-> {Invalid},
     times |-> {0}, writes |-> MaxWrites, maxvars |-> MaxVars]

InitReg == Start(RegClient)
SpecReg == InitReg /\ [][Next]_vars

\* Variables registered under the scopes a, a.b, a.c and b in every order,
\* one or two to a scope, then the header is written.
ScopeClient ==
    [scopes |-> {<<"a">>, <<"a", "b">>, <<"a", "c">>, <<"b">>},
     names |-> {"n", "m"}, kinds |-> {Scalar},
     inits |-> {NoneV}, idents |-> {AutoIdent},
     scope_types |-> {<<"bogus">>}, values |-> {Invalid},
     times |-> {0}, writes |-> 1, maxvars |-> MaxScopeVars]

InitScope == Start(ScopeClient)
SpecScope == InitScope /\ [][Next]_vars

\* The wrappers called with sizes 1 and 2, a string and a float as init,
\* automatic and given idents.
WrapClient ==
    [scopes |-> {<<"a">>}, names |-> {"n", "m"}, kinds |-> {Scalar, Vector},
     inits |-> {StrV(<<"x">>), FloatV(0)},
     idents |-> {AutoIdent, <<"i", "d">>},
     scope_types |-> {<<"bogus">>}, values |-> {Invalid},
     times |-> {0}, writes |-> MaxWrites, maxvars |-> MaxVars]

Sizes == {kind.size : kind \in client.kinds}

RegisterInt ==
    \E scope \in client.scopes, name \in client.names, size \in Sizes,
       init \in client.inits, ident \in client.idents :
        /\ register_int(scope, name, size, init, ident)
        /\ Len(handles') <= client.maxvars
RegisterReal ==
    \E scope \in client.scopes, name \in client.names, size \in Sizes,
       init \in client.inits, ident \in client.idents :
        /\ register_real(scope, name, size, init, ident)
        /\ Len(handles') <= client.maxvars
RegisterEvent ==
    \E scope \in client.scopes, name \in client.names, size \in Sizes,
       init \in client.inits, ident \in client.idents :
        /\ register_event(scope, name, size, init, ident)
        /\ Len(handles') <= client.maxvars

NextWrap ==
    \/ RegisterInt
    \/ RegisterReal
    \/ RegisterEvent
    \/ Next

InitWrap == Start(WrapClient)
SpecWrap == InitWrap /\ [][NextWrap]_vars

\* The encoders called directly, on every pair of a variable and a value:
\* a scalar and the vectors of 1..MaxBits bits; the integers around the
\* range of MaxBits bits, the booleans, None and short strings.
EncVars ==
    {ScalarVariable(<<"v", "0">>, "wire", 1)}
    \cup {VectorVariable(<<"v", "0">>, "wire", n) : n \in 1..MaxBits}
EncValues ==
    {IntV(n) : n \in (0 - Pow2(MaxBits))..Pow2(MaxBits)}
    \cup {BoolV(TRUE), BoolV(FALSE), NoneV, StrV(<<"x", "x">>)}
    \cup {StrV(<<c>>) : c \in ScalarChars \cup {"q"}}

EncClient ==
    [scopes |-> {}, names |-> {}, kinds |-> {}, inits |-> {}, idents |-> {},
     scope_types |-> {}, values |-> EncValues, times |-> {}, writes |-> 0,
     maxvars |-> 0]

InitEnc ==
    /\ Construct(EncClient)
    /\ fmt \in [state : {"called"}, var : EncVars, value : EncValues,
                out : {RaiseValueError}]

\* var.format_value(value) returns or raises.
FormatValue ==
    /\ fmt.state = "called"
    /\ fmt' = [fmt EXCEPT !.state = "returned",
                          !.out = format_value(fmt.var, fmt.value)]
    /\ UNCHANGED <<writer, handles, last, accepted, accepted_ts, nwrites,
                   client>>

NextEnc == FormatValue
SpecEnc == InitEnc /\ [][NextEnc]_vars

\* ------------------------------------------------------ reading the output
DigitValue(c) == CHOOSE d \in 0..9 : Digit[d + 1] = c

RECURSIVE ParseInt(_, _)
ParseInt(digits, sofar) ==
    IF digits = <<>> THEN sofar
    ELSE ParseInt(Tail(digits), 10 * sofar + DigitValue(Head(digits)))

IsMarker(line) == Len(line) > 1 /\ line[1] = "#"
MarkerTime(line) == ParseInt(Tail(line), 0)
Markers(out) == {i \in 1..Len(out) : IsMarker(out[i])}
IsLine(line, keyword) == line = <<keyword>>

\* The timestamp of the $dumpoff block that ends the output.
LastDumpOffTime(out) ==
    LET k == CHOOSE i \in 1..Len(out) :
                 /\ IsLine(out[i], "$dumpoff")
                 /\ \A j \in (i + 1)..Len(out) : ~IsLine(out[j], "$dumpoff")
    IN  MarkerTime(out[k - 1])

\* The value lines of the block a call appended: it wrote a timestamp, a
\* keyword, the lines, $end.
AppendedBlock(before, after) == SubSeq(after, Len(before) + 3, Len(after) - 1)

DistinctIdents ==
    \A i, j \in 1..Len(handles) : handles[i].ident = handles[j].ident => i = j

\* ------------------------------------------------------------------ claims

\* C1: dump_off(t1) in a Live, dumping writer followed at once by
\* dump_on(t2), t2 > t1, writes a $dumpon block holding, for every
\* registered variable, the text of the last value accepted for it.
C1_ResumeReproducesLastValues ==
    [][\A t2 \in client.times :
          (/\ last.op = "dump_off" /\ last.wrote
           /\ ~closed /\ DistinctIdents
           /\ LastDumpOffTime(ofile) >= prev_timestamp
           /\ t2 > LastDumpOffTime(ofile)
           /\ dump_on(t2))
          => LET block == AppendedBlock(ofile, ofile')
             IN  /\ Len(block) = Len(handles)
                 /\ \A i \in 1..Len(handles) :
                        \E j \in 1..Len(block) : block[j] = accepted[i]]_vars

\* C2: change() with a timestamp below that of an earlier accepted change()
\* raises VCDPhaseError, whatever the variable, the value and the dumping
\* flag.
\* Stated for the values the variable's encoder takes, for which
\* VCDPhaseError is the only error change() raises.
C2_PastTimestampRaises ==
    [][\A i \in 1..Len(handles), t \in client.times,
         value \in client.values :
          (/\ t < accepted_ts
           /\ format_value(handles[i], value).ok
           /\ change(i, t, value))
          => last'.res = "VCDPhaseError"]_vars

\* C3: the timestamp markers of the output never decrease in stream order.
C3_MarkersNonDecreasing ==
    \A i, j \in Markers(ofile) :
        i < j => MarkerTime(ofile[i]) <= MarkerTime(ofile[j])

\* C4: once closed, every call but close() raises VCDPhaseError, writes
\* nothing and leaves the writer as it was.
C4_ClosedRejectsEveryCall ==
    [][(closed /\ last'.op # "close")
       => /\ last'.res = "VCDPhaseError"
          /\ ~last'.wrote
          /\ UNCHANGED writer]_vars

\* C5: the writer leaves the registering phase only by change(), flush()
\* or close() and never comes back; from then on register_var raises
\* VCDPhaseError and registers nothing.
C5_RegisterOnlyWhileRegistering ==
    [][/\ (registering /\ ~registering')
          => last'.op \in {"change", "flush", "close"}
       /\ ~registering
          => /\ ~registering'
             /\ last'.op = "register_var"
                => /\ last'.res = "VCDPhaseError"
                   /\ UNCHANGED <<writer, handles>>]_vars

C5_Witness ==
    /\ ~registering /\ ~closed
    /\ last.op = "register_var" /\ last.res = "VCDPhaseError"

\* C6: nothing is written while registering; the first accepted change at
\* a nonzero timestamp, flush or close writes the header, before every
\* timestamp marker and value line; the output then holds one header.
ValueStart == {"0", "1", "x", "z", "X", "Z", "b", "r"}
IsValueLine(line) == Len(line) > 0 /\ line[1] \in ValueStart
HeaderEnds(out) == {i \in 1..Len(out) : out[i] = EndDefinitions}

C6_HeaderOnceAndLazy ==
    /\ registering => ofile = <<>>
    /\ (accepted_ts > 0 \/ closed) => ~registering
    /\ (last.op = "flush" /\ last.res = "ok") => ~registering
    /\ ~registering =>
          /\ Cardinality(HeaderEnds(ofile)) = 1
          /\ \A i \in 1..Len(ofile) :
                 (IsMarker(ofile[i]) \/ IsValueLine(ofile[i]))
                 => \A h \in HeaderEnds(ofile) : h < i

C6_Witness ==
    /\ ~registering /\ Len(handles) > 0
    /\ last.op = "flush" /\ last.wrote /\ nwrites = 2
    /\ Cardinality(HeaderEnds(ofile)) = 1

\* C7: a change() that raises ValueError leaves the writer and the output
\* exactly as they were, at every timestamp and in every phase.
C7_RejectedChangeIsAtomic ==
    [][\A i \in 1..Len(handles), t \in client.times,
         value \in client.values :
          (/\ ~format_value(handles[i], value).ok
           /\ ~ChangePhaseError(t)
           /\ change(i, t, value))
          => /\ last'.res = "ValueError"
             /\ ~last'.wrote
             /\ UNCHANGED <<writer, handles>>]_vars

C7_Witness ==
    /\ registering /\ ofile = <<>> /\ Len(handles) > 0
    /\ last.op = "change" /\ last.res = "ValueError"

\* The init value of a register_var call is one the variable's encoder
\* refuses.
InvalidInit(kind, init) ==
    ~format_value(MakeVariable(<<"v">>, kind.var_type, kind.size),
                  DefaultInit(kind.var_type, init)).ok

Registered(scope, name) == Contains(Get(scope_var_names, scope, <<>>), name)

\* C8: a register_var that fails on its init value leaves the name index,
\* the staged $var lines, the ident counter and the value cache as they
\* were, and the header that would be emitted is the same.
C8_FailedRegisterLeavesNoResidue ==
    [][\A scope \in client.scopes, name \in client.names,
         kind \in client.kinds, init \in client.inits,
         ident \in client.idents :
          (/\ ~RegisterPhaseError
           /\ kind.var_type \in VAR_TYPES
           /\ ~Registered(scope, name)
           /\ InvalidInit(kind, init)
           /\ register_var(scope, name, kind.var_type, kind.size, init,
                           ident))
          => /\ last'.res = "ValueError"
             /\ UNCHANGED <<scope_var_names, scope_var_strs, next_var_id,
                            ident_values>>
             /\ FinalizeLines' = FinalizeLines]_vars

\* C9: register_var raises KeyError and registers nothing when the name is
\* already registered under the very same scope tuple; under any other
\* scope tuple the name is no obstacle, and the call registers it there.
C9_NamesUniquePerScope ==
    [][\A scope \in client.scopes, name \in client.names,
         kind \in client.kinds, init \in client.inits,
         ident \in client.idents :
          (/\ ~RegisterPhaseError
           /\ kind.var_type \in VAR_TYPES
           /\ register_var(scope, name, kind.var_type, kind.size, init,
                           ident))
          => IF Registered(scope, name)
             THEN /\ last'.res = "KeyError"
                  /\ UNCHANGED <<writer, handles>>
             ELSE /\ last'.res # "KeyError"
                  /\ ~InvalidInit(kind, init)
                     => /\ last'.res = "ok"
                        /\ Registered(scope, name)'
                        /\ Len(handles') = Len(handles) + 1]_vars

IsPrefix(s1, s2) == Len(s1) < Len(s2) /\ SubSeq(s2, 1, Len(s1)) = s1

\* A name registered under a scope and under a child of it, and a call
\* that tried to register a name a second time.
C9_Witness ==
    /\ registering
    /\ last.op = "register_var" /\ last.res = "KeyError"
    /\ \E s1, s2 \in DOMAIN scope_var_names :
          /\ IsPrefix(s1, s2)
          /\ \E name \in client.names :
                Registered(s1, name) /\ Registered(s2, name)

\* C10: no two registered variables have the same ident.
C10_IdentsUnique ==
    \A i, j \in 1..Len(handles) :
        i # j => handles[i].ident # handles[j].ident

\* ------------------------------------------------------- reading the header
IsScopeLine(line) == Len(line) > 0 /\ line[1] = "$scope"
IsUpscope(line) == line = <<"$upscope", " ", "$end">>
IsVarLine(line) == Len(line) > 0 /\ line[1] = "$var"
ScopeTag(line) == line[3]
ScopeName(line) == line[5]
VarName(line) == line[Len(line) - 2]

ScopeLines(out) == {k \in 1..Len(out) : IsScopeLine(out[k])}
VarLines(out) == {k \in 1..Len(out) : IsVarLine(out[k])}

\* Per line, the names of the scopes open after it, outermost first.
RECURSIVE Stacks(_, _)
Stacks(out, k) ==
    IF k = 0 THEN <<>>
    ELSE LET before == Stacks(out, k - 1)
             st == IF k = 1 THEN <<>> ELSE before[k - 1]
         IN  Append(before,
                    IF IsScopeLine(out[k]) THEN Append(st, ScopeName(out[k]))
                    ELSE IF IsUpscope(out[k]) /\ st # <<>>
                    THEN SubSeq(st, 1, Len(st) - 1)
                    ELSE st)

OpenStacks(out) == Stacks(out, Len(out))

\* The names on the $var lines written while exactly `scope` was open, in
\* the order of the lines; stacks is OpenStacks(out).
RECURSIVE VarsUnder(_, _, _, _)
VarsUnder(out, stacks, k, scope) ==
    IF k = 0 THEN <<>>
    ELSE VarsUnder(out, stacks, k - 1, scope)
         \o (IF IsVarLine(out[k]) /\ stacks[k] = scope
             THEN <<VarName(out[k])>> ELSE <<>>)

\* The opens (by name) and closes ("^") of the output, in order.
RECURSIVE Shape(_, _)
Shape(out, k) ==
    IF k = 0 THEN <<>>
    ELSE Shape(out, k - 1)
         \o (IF IsScopeLine(out[k]) THEN <<ScopeName(out[k])>>
             ELSE IF IsUpscope(out[k]) THEN <<"^">> ELSE <<>>)

Prefixes(S) ==
    UNION {{SubSeq(sc, 1, j) : j \in 1..Len(sc)} : sc \in S}

NonEmptyPrefixes(S) ==
    UNION {{SubSeq(sc, 1, j) : j \in 1..Len(sc)} : sc \in S}

FourScopes == {<<"a">>, <<"a", "b">>, <<"a", "c">>, <<"b">>}

\* C11: the header written when registration ends nests its $scope and
\* $upscope lines properly (never more closes than opens, depth 0 at
\* $enddefinitions), opens every prefix of a registered scope path exactly
\* once, and writes each path's $var lines, in declaration order, while
\* exactly that path is open; for the paths a, a.b, a.c and b the opens and
\* closes are a, b, close, c, close, close, b, close.
C11_HeaderScopesNested ==
    [][(registering /\ ~registering')
       => \E out \in {ofile'} : \E st \in {OpenStacks(out)} :
          LET e == CHOOSE k \in 1..Len(out) : out[k] = EndDefinitions
          IN  /\ \A k \in 1..Len(out) :
                     IsUpscope(out[k]) => (k > 1 /\ st[k - 1] # <<>>)
              /\ st[e] = <<>>
              /\ \A k1, k2 \in ScopeLines(out) : st[k1] = st[k2] => k1 = k2
              /\ {st[k] : k \in ScopeLines(out)}
                     = NonEmptyPrefixes(DOMAIN scope_var_strs)
              /\ \A k \in VarLines(out) :
                     k < e /\ st[k] \in DOMAIN scope_var_strs
              /\ \A scope \in DOMAIN scope_var_names :
                     VarsUnder(out, st, Len(out), scope)
                         = scope_var_names[scope]
              /\ DOMAIN scope_var_strs = FourScopes
                     => Shape(out, Len(out))
                            = <<"a", "b", "^", "c", "^", "^", "b", "^">>]_vars

\* The header of the four paths, the variable under b registered first.
C11_Witness ==
    /\ ~registering
    /\ {OpenStacks(ofile)[k] : k \in VarLines(ofile)} = FourScopes
    /\ \E k \in VarLines(ofile) :
          /\ OpenStacks(ofile)[k] = <<"b">>
          /\ ofile[k][Len(ofile[k]) - 4] = "0"

\* C12: every $scope line of the header carries a tag of SCOPE_TYPES: the
\* one set_scope_type last stored for the cumulative path if it is a tag,
\* the writer's default tag if none was stored or None was stored.
C12_ScopeTagsFromFixedSet ==
    [][(registering /\ ~registering')
       => \E out \in {ofile'} : \E st \in {OpenStacks(out)} :
          \A k \in ScopeLines(out) :
              /\ <<ScopeTag(out[k])>> \in SCOPE_TYPES
              /\ <<ScopeTag(out[k])>>
                     = IF st[k] \in DOMAIN scope_types
                          /\ scope_types[st[k]] # None
                       THEN scope_types[st[k]]
                       ELSE default_scope_type]_vars

\* C13: the first close() does what flush() does (the header if the writer
\* was registering, the marker of a timestamp beyond the cursor) and closes
\* the writer; every later close(), with or without a timestamp, raises
\* nothing, writes nothing and changes nothing.
C13_CloseIdempotent ==
    [][\A t \in OptTimes :
          close(t)
          => /\ last'.res = "ok"
             /\ closed'
             /\ ~registering'
             /\ IF closed
                THEN UNCHANGED <<writer, handles>> /\ ~last'.wrote
                ELSE /\ registering
                        => /\ Cardinality(HeaderEnds(ofile')) = 1
                           /\ Len(ofile') > 0
                     /\ (t # NoTime /\ t > prev_timestamp)
                        => ofile'[Len(ofile')] = TimestampLine(t)
                     /\ (~registering /\ (t = NoTime \/ t <= prev_timestamp))
                        => ofile' = ofile
                     /\ UNCHANGED <<dumping, next_var_id, ident_values,
                                    prev_timestamp, handles>>]_vars

\* A close() of a closed writer whose header holds a variable.
C13_Witness ==
    /\ closed /\ last.op = "close" /\ last.why = "skipped"
    /\ Len(handles) > 0
    /\ Cardinality(HeaderEnds(ofile)) = 1

\* The writer's fields but the dumping flag.
writer_but_dumping ==
    <<ofile, header_keywords, registering, closed, next_var_id,
      scope_var_strs, scope_var_names, scope_types, ident_values,
      prev_timestamp>>

\* C14: dump_off writes nothing and changes no field of the writer, the
\* dumping flag included, unless the writer is dumping, not registering
\* and holds a cached value; dump_on likewise unless dumping is off, the
\* writer is not registering and holds a cached value.
C14_DumpOffOnNoOp ==
    [][\A t \in client.times :
          /\ (dump_off(t)
              /\ ~(dumping /\ ~registering /\ ident_values # <<>>))
             => UNCHANGED writer
          /\ (dump_on(t)
              /\ ~(~dumping /\ ~registering /\ ident_values # <<>>))
             => UNCHANGED writer]_vars

\* C14 as the code has it: in those cases dump_off and dump_on write
\* nothing and change no field but the dumping flag, which dump_off sets
\* off and dump_on sets on.
C14_DumpOffOnOnlyFlag ==
    [][\A t \in client.times :
          /\ (dump_off(t)
              /\ ~(dumping /\ ~registering /\ ident_values # <<>>))
             => UNCHANGED writer_but_dumping /\ ~dumping'
          /\ (dump_on(t)
              /\ ~(~dumping /\ ~registering /\ ident_values # <<>>))
             => UNCHANGED writer_but_dumping /\ dumping']_vars

\* dump_off while registering, a value cached: nothing written, the flag
\* off.
C14_Witness ==
    /\ registering /\ ident_values # <<>> /\ ~dumping
    /\ last.op = "dump_off" /\ ~last.wrote /\ ofile = <<>>

\* --------------------------------------------------- reading a value line
\* The binary digits of a vector's value line 'b<digits> <ident>'.
RECURSIVE UpToSpace(_)
UpToSpace(str) ==
    IF str = <<>> \/ Head(str) = " " THEN <<>>
    ELSE <<Head(str)>> \o UpToSpace(Tail(str))

BinDigits(str) == UpToSpace(Tail(str))

RECURSIVE ParseBin(_, _)
ParseBin(digits, sofar) ==
    IF digits = <<>> THEN sofar
    ELSE ParseBin(Tail(digits), 2 * sofar + DigitValue(Head(digits)))

\* The digits read as an unsigned number, and as a two's-complement number
\* of n bits.
AsUnsigned(digits) == ParseBin(digits, 0)
AsTwosComplement(digits, n) ==
    LET u == AsUnsigned(digits)
    IN  IF u >= Pow2(n - 1) THEN u - Pow2(n) ELSE u

VectorIntCall ==
    /\ fmt.state = "returned"
    /\ fmt.var.cls = "VectorVariable"
    /\ fmt.value.t = "int"
    /\ 0 - Pow2(fmt.var.size - 1) <= fmt.value.i
    /\ fmt.value.i < Pow2(fmt.var.size)

\* C15: for every size n and integer v, -(2^(n-1)) <= v < 2^n, the vector
\* encoder succeeds and its digits, read as an n-bit two's-complement
\* number, are v.
C15_VectorRoundTrip ==
    VectorIntCall
    => /\ fmt.out.ok
       /\ AsTwosComplement(BinDigits(fmt.out.str), fmt.var.size) = fmt.value.i

\* C15 as the code has it: the encoder succeeds on that range and emits at
\* most n digits; read as an n-bit two's-complement number they are v when
\* v < 2^(n-1), read as an unsigned number they are v when v >= 0.
C15_VectorRoundTripBySign ==
    VectorIntCall
    => LET digits == BinDigits(fmt.out.str)
           n == fmt.var.size
           v == fmt.value.i
       IN  /\ fmt.out.ok
           /\ Len(digits) <= n
           /\ fmt.out.str = <<"b">> \o digits \o <<" ">> \o fmt.var.ident
           /\ v < Pow2(n - 1) => AsTwosComplement(digits, n) = v
           /\ v >= 0 => AsUnsigned(digits) = v

\* -2 in three bits is b110.
C15_Witness ==
    /\ VectorIntCall
    /\ fmt.var.size = 3 /\ fmt.value.i = 0 - 2
    /\ fmt.out.str = <<"b", "1", "1", "0", " ", "v", "0">>

\* The scalar inputs C16 lists, and the state each stands for.
ScalarInputs ==
    {IntV(0), IntV(1), BoolV(TRUE), BoolV(FALSE), NoneV}
    \cup {StrV(<<c>>) : c \in {"x", "z", "X", "Z"}}

Lower(c) == CASE c = "X" -> "x" [] c = "Z" -> "z" [] OTHER -> c

StateOf(value) ==
    CASE value.t = "str" -> value.s[1]
      [] value.t = "none" -> "z"
      [] OTHER -> IF value.i = 0 THEN "0" ELSE "1"

ScalarCall ==
    /\ fmt.state = "returned"
    /\ fmt.var.cls = "ScalarVariable"
    /\ fmt.value \in ScalarInputs

\* C16: for every valid scalar input the scalar encoder returns one state
\* character of 0, 1, x, z, letters in lowercase, followed at once by the
\* ident.
C16_ScalarOneLowercaseChar ==
    ScalarCall
    => /\ fmt.out.ok
       /\ fmt.out.str = <<Lower(StateOf(fmt.value))>> \o fmt.var.ident
       /\ fmt.out.str[1] \in {"0", "1", "x", "z"}

\* C16 as the code has it: the letter of a string is kept in the case
\* given, so the state character is one of 0, 1, x, z, X, Z.
C16_ScalarOneChar ==
    ScalarCall
    => /\ fmt.out.ok
       /\ fmt.out.str = <<StateOf(fmt.value)>> \o fmt.var.ident
       /\ fmt.out.str[1] \in {"0", "1", "x", "z", "X", "Z"}

\* An uppercase X stays X.
C16_Witness ==
    /\ ScalarCall
    /\ fmt.value = StrV(<<"X">>) /\ fmt.out.str = <<"X", "v", "0">>

\* The ident on a $var line '$var <type> <size> <ident> <name> $end'.
RECURSIVE SizeEnd(_, _)
SizeEnd(line, k) == IF line[k] = " " THEN k ELSE SizeEnd(line, k + 1)
VarIdent(line) == SubSeq(line, SizeEnd(line, 5) + 1, Len(line) - 4)

\* The call registered a variable: the handle returned and its $var line.
Returned == handles'[Len(handles')]
StagedLine(scope) == scope_var_strs'[scope][Len(scope_var_strs'[scope])]

\* C17: register_int, register_real and register_event each do what
\* register_var does with the fixed var_type and the same scope, name,
\* size, init and ident; an ident the caller gives is the ident of the
\* returned variable and of its $var line.
C17_WrappersForward ==
    [][\A scope \in client.scopes, name \in client.names, size \in Sizes,
         init \in client.inits, ident \in client.idents :
          LET given(var_type) ==
                  /\ register_var(scope, name, var_type, size, init, ident)
                  /\ (last'.res = "ok" /\ ident # None)
                     => /\ Returned.ident = ident
                        /\ Returned.type = var_type
                        /\ VarIdent(StagedLine(scope)) = ident
          IN  /\ register_int(scope, name, size, init, ident)
                 => given("integer")
              /\ register_real(scope, name, size, init, ident)
                 => given("real")
              /\ register_event(scope, name, size, init, ident)
                 => given("event")]_vars

\* The value lines of the $dumpvars block of the output.
DumpvarsBlock(out) ==
    LET b == CHOOSE k \in 1..Len(out) : IsLine(out[k], "$dumpvars")
        e == CHOOSE k \in (b + 1)..Len(out) :
                 /\ IsLine(out[k], "$end")
                 /\ \A j \in (b + 1)..(k - 1) : ~IsLine(out[j], "$end")
    IN  SubSeq(out, b + 1, e - 1)

HasDumpvars(out) == \E k \in 1..Len(out) : IsLine(out[k], "$dumpvars")

\* C18: the $dumpvars block holds one line per registered variable, in the
\* order the variables were first changed, each the text of the last
\* change accepted for the variable at timestamp 0, a flush in between or
\* not.  While no change was accepted beyond timestamp 0, that text is
\* the latest accepted one.
C18_DumpvarsHoldLastValuesAtZero ==
    (~registering /\ Len(handles) > 0 /\ accepted_ts = 0)
    => /\ HasDumpvars(ofile)
       /\ DumpvarsBlock(ofile) = accepted

\* What a step appended to the output.
Appended == SubSeq(ofile', Len(ofile) + 1, Len(ofile'))

\* The unknown representation of a variable, by its kind: a set of one
\* line, or of none for a real.
UnknownOf(var) ==
    CASE var.cls = "VectorVariable" -> {<<"b", "x", " ">> \o var.ident}
      [] var.cls = "RealVariable" -> {}
      [] OTHER -> {<<"x">> \o var.ident}

\* C19: a $dumpoff block, written by dump_off or with the header, follows
\* a timestamp marker and holds, for every registered variable, 'bx ident'
\* if it is a vector, 'x' and the ident if it is a scalar, nothing if it is
\* a real, and no other line; then $end, and dumping is off afterwards.
C19_DumpOffBlockByKind ==
    [][(\E k \in 1..Len(Appended) : IsLine(Appended[k], "$dumpoff"))
       => \E new \in {Appended} :
          LET k == CHOOSE j \in 1..Len(new) : IsLine(new[j], "$dumpoff")
              e == CHOOSE j \in (k + 1)..Len(new) :
                       /\ IsLine(new[j], "$end")
                       /\ \A i \in (k + 1)..(j - 1) : ~IsLine(new[i], "$end")
          IN  /\ k > 1 /\ IsMarker(new[k - 1])
              /\ {new[j] : j \in (k + 1)..(e - 1)}
                     = UNION {UnknownOf(handles[i]) : i \in 1..Len(handles)}
              /\ ~dumping']_vars

\* The timestamp of the last marker of the output.
LastMarkerTime(out) ==
    LET k == CHOOSE i \in Markers(out) : \A j \in Markers(out) : j <= i
    IN  MarkerTime(out[k])

CacheOf(od, ident) ==
    {od[j].val : j \in {j \in 1..Len(od) : od[j].ident = ident}}

\* C20: an accepted change(var, t, value) with t > 0 and dumping on writes
\* its value line last, and the latest timestamp marker before that line,
\* whichever call wrote it, is '#t'; an accepted change of a live writer
\* with dumping off writes nothing and only sets the cache entry of var.
C20_ValueLineUnderOwnTimestamp ==
    [][\A i \in 1..Len(handles), t \in client.times,
         value \in client.values :
          (change(i, t, value) /\ last'.res = "ok")
          => /\ (t > 0 /\ dumping)
                => /\ Len(ofile') > Len(ofile)
                   /\ ofile'[Len(ofile')] = format_value(handles[i], value).str
                   /\ Markers(ofile') # {}
                   /\ LastMarkerTime(ofile') = t
             /\ (~dumping /\ ~registering)
                => /\ ofile' = ofile
                   /\ CacheOf(ident_values', handles[i].ident)
                          = {format_value(handles[i], value).str}
                   /\ \A j \in 1..Len(handles) :
                          handles[j].ident # handles[i].ident
                          => CacheOf(ident_values', handles[j].ident)
                                 = CacheOf(ident_values, handles[j].ident)
                   /\ UNCHANGED <<registering, closed, dumping,
                                  prev_timestamp, next_var_id>>]_vars
====
